---- MODULE Spec2Model ----
(***************************************************************************)
(* Verification model of the puzzle solutions of adventOfCode2023.  Every  *)
(* script is an independent batch computation, so the module holds one     *)
(* state machine per script (Spec14, Spec19, ...), each over its own       *)
(* variables; the variables of the other scripts stay at their idle value. *)
(***************************************************************************)
EXTENDS Integers, Sequences, FiniteSets, TLC

VARIABLES
    \* src/14/main.py: rotate_tilt_map
    user_map,        \* the map handed to rotate_tilt_map (args.input_file)
    num,             \* the number of rotations asked for
    rock_map,        \* the local rock_map, rebound every iteration
    old_rock_maps,   \* the list of maps seen since the last jump
    ind_rotate,      \* the loop counter
    pc14,            \* "loop" while in the while loop, "done" after return
    \* src/19/main.py: apply_workflows (part 1)
    workflows,       \* the dictionary read_workflows returns
    part_dict,       \* the part being rated
    workflow_name,   \* the local workflow_name of apply_workflows
    applied_name,    \* the workflow the last apply_workflow call was given
    pc19,            \* "loop", "done" (returned) or "raised" (ValueError)
    \* src/19/main.py: get_all_accept_paths (part 2)
    user_workflows,  \* the rule lists as read_file returned them
    wf_heap,         \* the dictionary get_all_accept_paths works on, in place
    current_workflow,\* the list of options; each entry refers to a dictionary
                     \* held in wf_heap, as <<workflow name, index>>
    pc19b,           \* "convert", "loop" or "done"
    \* src/05/main.py: get_min_seed_mapping_ranges
    seed_input,      \* the seed ranges get_seed_numbers returned
    map_arrays,      \* read_map of every map string, in file order
    seed_ranges,     \* the local seed_ranges, rebound after every map
    source_ranges,   \* the ranges the last apply_map_range call was given
    map_ind,         \* how many maps have been applied
    min_location,    \* the value returned
    pc05,            \* "loop", "done" or "raised"
    \* src/08/main.py: go_path
    network_path,    \* the instructions, a sequence of "L" and "R"
    network_map,     \* node -> <<node_left, node_right>>
    start_nodes,     \* the list of start nodes
    end_nodes,       \* the list of end nodes
    current_nodes,   \* the list of node lists, one per pass
    steps,           \* the steps counted so far
    pc08,            \* "loop", "done" or "raised"
    \* src/04/main.py: get_total_number_cards
    queue_copies,    \* the deque of copies won for the next cards
    num_cards,       \* the running total
    card_matches,    \* get_match_card of every card read so far, in order
    pc04,            \* "loop" while reading the file, "done" after return
    \* src/15/main.py: holiday_hash
    curr_value,      \* the local curr_value
    sum_value,       \* curr_value after the first statement of the loop body
    chars_hashed,    \* how many characters the loop has consumed
    plain_value,     \* the same characters hashed as the docstring words it
    pc15h,           \* "loop" or "done"
    \* src/15/main.py: holiday_hash_map on BOXES
    boxes,           \* BOXES: box index -> the entries <<label, focal_length>>
                     \* of its OrderedDict, in order
    steps_done,      \* the steps applied so far, in order
    \* src/15/main.py: read_steps and the hash sum of __main__
    file_text,       \* the characters of args.input_file, as codes
    user_steps,      \* the list read_steps returns
    user_hash_sum,   \* the sum printed by __main__
    pc15r,           \* "read", "sum" or "done"
    \* src/01/main.py: get_calibration_number with match_type True
    input_string,    \* the line handed to get_calibration_number
    replaced_string, \* the line after replace_digit_names
    calibration_number,\* the number returned
    pc01,            \* "replace", "find", "done" or "IndexError"
    \* src/07/main.py: get_hand_type and get_hand_type_joker
    hand07,          \* the hand
    joker07,         \* the joker character, "None" for None
    hand_type,       \* what get_hand_type returned, -1 before the call
    hand_type_joker, \* what get_hand_type_joker returned, -1 before the call
    pc07,            \* "plain", "joker" or "done"
    \* src/07/main.py: get_winnings and CARD_VALUE
    CARD_VALUE,      \* the module-level table
    input_file07,    \* the lines <<hand, bid>> of the input file
    joker_args,      \* the joker argument of every call made so far
    winnings,        \* what the last call returned
    \* src/06/main.py: get_num_win
    time06,          \* the argument time
    distance06,      \* the argument distance
    num_win,         \* the number returned
    pc06,            \* "call" or "done"
    \* src/05/main.py: get_seed_numbers inside get_min_location
    seed_num_read,   \* the numbers found in the seed line
    is_range_arg,    \* the is_range argument of get_min_location
    seed_maps,       \* the maps of the file
    seed_numbers,    \* the first value get_seed_numbers returned
    is_range,        \* the local is_range of get_min_location
    warned,          \* whether warnings.warn was called
    lowest,          \* <<n>> once n was returned, <<>> before and for inf
    pc05s,           \* "seeds", "maps", "done" or "ValueError"
    \* src/09/main.py: get_next_element, backward then forward
    seq_arg,         \* the sequence of the backward call
    backward,        \* the backward flag of the running call
    seq,             \* the local seq of get_diffs
    seq_last,        \* the local seq_last of get_diffs
    outcomes         \* what the calls made so far returned or raised

vars14 == <<user_map, num, rock_map, old_rock_maps, ind_rotate, pc14>>

vars19 == <<workflows, part_dict, workflow_name, applied_name, pc19>>

vars19b == <<user_workflows, wf_heap, current_workflow, pc19b>>

vars05 == <<seed_input, map_arrays, seed_ranges, source_ranges, map_ind,
            min_location, pc05>>

vars08 == <<network_path, network_map, start_nodes, end_nodes, current_nodes,
            steps, pc08>>

vars04 == <<queue_copies, num_cards, card_matches, pc04>>

vars15h == <<curr_value, sum_value, chars_hashed, plain_value, pc15h>>

vars15 == <<boxes, steps_done>>

vars15r == <<file_text, user_steps, user_hash_sum, pc15r>>

vars01 == <<input_string, replaced_string, calibration_number, pc01>>

vars07 == <<hand07, joker07, hand_type, hand_type_joker, pc07>>

vars07w == <<CARD_VALUE, input_file07, joker_args, winnings>>

vars06 == <<time06, distance06, num_win, pc06>>

vars05s == <<seed_num_read, is_range_arg, seed_maps, seed_numbers, is_range, warned, lowest, pc05s>>

vars09 == <<seq_arg, backward, seq, seq_last, outcomes>>

vars == <<vars14, vars19, vars19b, vars05, vars08, vars04, vars15h, vars15, vars15r, vars01, vars07, vars07w, vars06, vars05s, vars09>>

\* The variables of a script that is not running.
Idle14 ==
    /\ user_map = <<>>
    /\ num = 0
    /\ rock_map = <<>>
    /\ old_rock_maps = <<>>
    /\ ind_rotate = 0
    /\ pc14 = "idle"

Idle19 ==
    /\ workflows = <<>>
    /\ part_dict = <<>>
    /\ workflow_name = ""
    /\ applied_name = ""
    /\ pc19 = "idle"

Idle19b ==
    /\ user_workflows = <<>>
    /\ wf_heap = <<>>
    /\ current_workflow = <<>>
    /\ pc19b = "idle"

Idle05 ==
    /\ seed_input = <<>>
    /\ map_arrays = <<>>
    /\ seed_ranges = <<>>
    /\ source_ranges = <<>>
    /\ map_ind = 0
    /\ min_location = 0
    /\ pc05 = "idle"

Idle08 ==
    /\ network_path = <<>>
    /\ network_map = <<>>
    /\ start_nodes = <<>>
    /\ end_nodes = <<>>
    /\ current_nodes = <<>>
    /\ steps = 0
    /\ pc08 = "idle"

Idle04 ==
    /\ queue_copies = <<>>
    /\ num_cards = 0
    /\ card_matches = <<>>
    /\ pc04 = "idle"

Idle15h ==
    /\ curr_value = 0
    /\ sum_value = 0
    /\ chars_hashed = 0
    /\ plain_value = 0
    /\ pc15h = "idle"

Idle15 ==
    /\ boxes = <<>>
    /\ steps_done = <<>>

Idle15r ==
    /\ file_text = <<>>
    /\ user_steps = <<>>
    /\ user_hash_sum = 0
    /\ pc15r = "idle"

Idle01 ==
    /\ input_string = <<>>
    /\ replaced_string = <<>>
    /\ calibration_number = 0
    /\ pc01 = "idle"

Idle07 ==
    /\ hand07 = <<>>
    /\ joker07 = "None"
    /\ hand_type = -1
    /\ hand_type_joker = -1
    /\ pc07 = "idle"

Idle07w ==
    /\ CARD_VALUE = <<>>
    /\ input_file07 = <<>>
    /\ joker_args = <<>>
    /\ winnings = 0

Idle06 ==
    /\ time06 = 0
    /\ distance06 = 0
    /\ num_win = 0
    /\ pc06 = "idle"

Idle05s ==
    /\ seed_num_read = <<>>
    /\ is_range_arg = FALSE
    /\ seed_maps = <<>>
    /\ seed_numbers = <<>>
    /\ is_range = FALSE
    /\ warned = FALSE
    /\ lowest = <<>>
    /\ pc05s = "idle"

Idle09 ==
    /\ seq_arg = <<>>
    /\ backward = FALSE
    /\ seq = <<>>
    /\ seq_last = <<>>
    /\ outcomes = <<>>

\* Every script is a process of its own: while one runs, the variables of
\* the others hold nothing and do not change.
IdleBut(script) ==
    /\ IF script = "14" THEN TRUE ELSE Idle14
    /\ IF script = "19" THEN TRUE ELSE Idle19
    /\ IF script = "19b" THEN TRUE ELSE Idle19b
    /\ IF script = "05" THEN TRUE ELSE Idle05
    /\ IF script = "08" THEN TRUE ELSE Idle08
    /\ IF script = "04" THEN TRUE ELSE Idle04
    /\ IF script = "15h" THEN TRUE ELSE Idle15h
    /\ IF script = "15" THEN TRUE ELSE Idle15
    /\ IF script = "15r" THEN TRUE ELSE Idle15r
    /\ IF script = "01" THEN TRUE ELSE Idle01
    /\ IF script = "07" THEN TRUE ELSE Idle07
    /\ IF script = "07w" THEN TRUE ELSE Idle07w
    /\ IF script = "06" THEN TRUE ELSE Idle06
    /\ IF script = "05s" THEN TRUE ELSE Idle05s
    /\ IF script = "09" THEN TRUE ELSE Idle09

UnchangedBut(script) ==
    /\ IF script = "14" THEN TRUE ELSE UNCHANGED vars14
    /\ IF script = "19" THEN TRUE ELSE UNCHANGED vars19
    /\ IF script = "19b" THEN TRUE ELSE UNCHANGED vars19b
    /\ IF script = "05" THEN TRUE ELSE UNCHANGED vars05
    /\ IF script = "08" THEN TRUE ELSE UNCHANGED vars08
    /\ IF script = "04" THEN TRUE ELSE UNCHANGED vars04
    /\ IF script = "15h" THEN TRUE ELSE UNCHANGED vars15h
    /\ IF script = "15" THEN TRUE ELSE UNCHANGED vars15
    /\ IF script = "15r" THEN TRUE ELSE UNCHANGED vars15r
    /\ IF script = "01" THEN TRUE ELSE UNCHANGED vars01
    /\ IF script = "07" THEN TRUE ELSE UNCHANGED vars07
    /\ IF script = "07w" THEN TRUE ELSE UNCHANGED vars07w
    /\ IF script = "06" THEN TRUE ELSE UNCHANGED vars06
    /\ IF script = "05s" THEN TRUE ELSE UNCHANGED vars05s
    /\ IF script = "09" THEN TRUE ELSE UNCHANGED vars09

----------------------------------------------------------------------------
(* Generic helpers *)

Min(a, b) == IF a < b THEN a ELSE b

Max(a, b) == IF a > b THEN a ELSE b

Range(s) == {s[i] : i \in 1..Len(s)}

----------------------------------------------------------------------------
(* Day 14: src/14/main.py *)

\* Square maps of this side are drawn as inputs.
MapSide == 2

\* The largest num drawn as input.
MaxNum == 6

\* read_map's cell codes: "." is 0, "O" is 1, "#" is -1.
Cells == {-1, 0, 1}

\* np.rot90(rock_map, -1): a clockwise quarter turn.
Rot90(m) ==
    LET R == Len(m)
        C == Len(m[1])
    IN  [i \in 1..C |-> [j \in 1..R |-> m[R + 1 - j][i]]]

\* np.pad(m, 1, "constant", constant_values=-1)
Pad(m) ==
    LET R == Len(m)
        C == Len(m[1])
    IN  [i \in 1..(R + 2) |->
            [j \in 1..(C + 2) |->
                IF i = 1 \/ i = R + 2 \/ j = 1 \/ j = C + 2
                THEN -1
                ELSE m[i - 1][j - 1]]]

\* rock_map[1:-1, 1:-1]
Unpad(m) ==
    LET R == Len(m)
        C == Len(m[1])
    IN  [i \in 1..(R - 2) |-> [j \in 1..(C - 2) |-> m[i + 1][j + 1]]]

\* The tilt of one padded row: every slice between two consecutive
\* entries < 0 (ind_unroll) is sorted in place, ascending, so its 0s come
\* first and its 1s last.
TiltRow(row) ==
    LET unroll == {q \in 1..Len(row) : row[q] < 0}
        ind1(p) == CHOOSE q \in unroll : q < p /\ \A r \in unroll : r < p => r <= q
        ind2(p) == CHOOSE q \in unroll : q > p /\ \A r \in unroll : r > p => r >= q
        ones(p) == Cardinality({q \in (ind1(p) + 1)..(ind2(p) - 1) : row[q] = 1})
    IN  [p \in 1..Len(row) |->
            IF row[p] < 0 THEN row[p]
            ELSE IF p >= ind2(p) - ones(p) THEN 1 ELSE 0]

\* One pass of the loop body up to the unpadding: rotate, pad, tilt, unpad.
RotateTiltOnce(m) ==
    LET padded == Pad(Rot90(m))
    IN  Unpad([i \in 1..Len(padded) |-> TiltRow(padded[i])])

\* The indices of old_rock_maps whose map equals m (enumerate + .all()).
MatchInds(olds, m) == {k \in 1..Len(olds) : olds[k] = m}

Init14 ==
    /\ user_map \in [1..MapSide -> [1..MapSide -> Cells]]
    /\ num \in 1..MaxNum
    /\ rock_map = user_map
    /\ old_rock_maps = <<>>
    /\ ind_rotate = 0
    /\ pc14 = "loop"
    /\ IdleBut("14")

\* One iteration of `while ind_rotate < num`.
RotateTiltIter ==
    /\ pc14 = "loop"
    /\ ind_rotate < num
    /\ LET new_map == RotateTiltOnce(rock_map)
           hits == MatchInds(old_rock_maps, new_map)
       IN  /\ rock_map' = new_map
           /\ IF hits # {}
              THEN LET ind_map == (CHOOSE k \in hits : \A j \in hits : k <= j) - 1
                       len_cycle == Len(old_rock_maps) - ind_map
                   IN  /\ ind_rotate' = ind_rotate
                                + ((num - ind_rotate) \div len_cycle) * len_cycle + 1
                       /\ old_rock_maps' = <<>>
              ELSE /\ old_rock_maps' = Append(old_rock_maps, new_map)
                   /\ ind_rotate' = ind_rotate + 1
    /\ UNCHANGED <<user_map, num, pc14>>
    /\ UnchangedBut("14")

\* The loop condition fails: return rock_map.
RotateTiltReturn ==
    /\ pc14 = "loop"
    /\ ~(ind_rotate < num)
    /\ pc14' = "done"
    /\ UNCHANGED <<user_map, num, rock_map, old_rock_maps, ind_rotate>>
    /\ UnchangedBut("14")

Next14 == RotateTiltIter \/ RotateTiltReturn

Spec14 == Init14 /\ [][Next14]_vars

\* The single step applied n times in a row, with no shortcut.
RECURSIVE StepTimes(_, _)
StepTimes(m, n) == IF n = 0 THEN m ELSE StepTimes(RotateTiltOnce(m), n - 1)

\* C1: rotate_tilt_map(rock_map, num) returns the map obtained by applying
\* 'rotate 90 degrees, then tilt' exactly num times.
C1_ReturnsNumSteps ==
    pc14 = "done" => rock_map = StepTimes(user_map, num)

----------------------------------------------------------------------------
(* Day 19, part 1: src/19/main.py, apply_workflow and apply_workflows *)

PART_NAMES == <<"x", "m", "a", "s">>

MIN_PART_VALUE == 1

\* MAX_PART_VALUE is 4000 in the script; the model rates parts up to here.
MAX_PART_VALUE == 3

\* The attributes and thresholds the drawn conditions test.
CondParts == {"x", "m"}

CondVals == {2}

\* The longest rule list drawn for one workflow.
MaxRules == 2

\* A rule string is either "condition:name" or "name".  rule.split(":")
\* yields two pieces for the first form and one (a ValueError on
\* unpacking) for the second; re.split(r"\<|\>", cond) yields the
\* attribute and the threshold, and '"<" in cond' tells the comparison.
CondRule(p, o, v, n) == [form |-> "cond", part |-> p, op |-> o, val |-> v, name |-> n]

NameRule(n) == [form |-> "name", name |-> n]

CondRules(targets) ==
    {CondRule(p, o, v, n) : p \in CondParts, o \in {"<", ">"}, v \in CondVals, n \in targets}

NameRules(targets) == {NameRule(n) : n \in targets}

\* The rule lists of at most MaxRules rules whose last rule is a name and
\* whose other rules are of either form.
RuleLists(targets) ==
    UNION {{Append(front, last) :
                front \in [1..k -> CondRules(targets) \cup NameRules(targets)],
                last \in NameRules(targets)} : k \in 0..(MaxRules - 1)}

\* part_dict[part_name] < int(val), or > when the condition holds no "<".
CondHolds(rule, part) ==
    IF rule.op = "<" THEN part[rule.part] < rule.val ELSE part[rule.part] > rule.val

\* apply_workflow: the loop runs over rules[:-1]; a rule without ":"
\* is returned as it stands (the except branch), a rule whose condition
\* holds returns its name, and when the loop ends the function raises.
RECURSIVE ApplyFrom(_, _, _)
ApplyFrom(rules, part, i) ==
    IF i > Len(rules) - 1 THEN "ValueError"
    ELSE IF rules[i].form = "name" THEN rules[i].name
    ELSE IF CondHolds(rules[i], part) THEN rules[i].name
    ELSE ApplyFrom(rules, part, i + 1)

apply_workflow(rules, part) == ApplyFrom(rules, part, 1)

Init19 ==
    /\ \E rin \in RuleLists({"b", "A", "R"}), rb \in RuleLists({"A", "R"}) :
            workflows = [n \in {"in", "b"} |-> IF n = "in" THEN rin ELSE rb]
    /\ part_dict \in [Range(PART_NAMES) -> MIN_PART_VALUE..MAX_PART_VALUE]
    /\ workflow_name = "in"
    /\ applied_name = ""
    /\ pc19 = "loop"
    /\ IdleBut("19")

\* One iteration of `while workflow_name not in ["A", "R"]`.
ApplyWorkflowsIter ==
    /\ pc19 = "loop"
    /\ workflow_name \notin {"A", "R"}
    /\ LET res == apply_workflow(workflows[workflow_name], part_dict)
       IN  IF res = "ValueError"
           THEN /\ pc19' = "raised"
                /\ workflow_name' = workflow_name
           ELSE /\ pc19' = pc19
                /\ workflow_name' = res
    /\ applied_name' = workflow_name
    /\ UNCHANGED <<workflows, part_dict>>
    /\ UnchangedBut("19")

\* The loop ends: return workflow_name == "A".
ApplyWorkflowsReturn ==
    /\ pc19 = "loop"
    /\ workflow_name \in {"A", "R"}
    /\ pc19' = "done"
    /\ UNCHANGED <<workflows, part_dict, workflow_name, applied_name>>
    /\ UnchangedBut("19")

Next19 == ApplyWorkflowsIter \/ ApplyWorkflowsReturn

Spec19 == Init19 /\ [][Next19]_vars

\* The target the rules name for the part: the name of the first rule that
\* is a bare name or whose condition holds, the last rule included.
RECURSIVE FirstTarget(_, _, _)
FirstTarget(rules, part, i) ==
    IF i > Len(rules) THEN "none"
    ELSE IF rules[i].form = "name" THEN rules[i].name
    ELSE IF CondHolds(rules[i], part) THEN rules[i].name
    ELSE FirstTarget(rules, part, i + 1)

\* C2: every apply_workflow call returns the name of the first rule whose
\* condition holds or that is a bare name, the final fallback included; it
\* never ends in an error for a workflow whose last rule is a name.
C2_FirstTrueRuleOrFallback ==
    applied_name # "" =>
        /\ pc19 # "raised"
        /\ workflow_name = FirstTarget(workflows[applied_name], part_dict, 1)

----------------------------------------------------------------------------
(* Day 19, part 2: src/19/main.py, get_all_accept_paths and               *)
(* num_per_accept_path                                                     *)

\* The rule lists of the puzzle's grammar: conditions, then one name.
WellFormedLists(targets) ==
    UNION {{Append(front, last) :
                front \in [1..k -> CondRules(targets)],
                last \in NameRules(targets)} : k \in 0..(MaxRules - 1)}

\* A condition string of a path: the rule's condition, or "!" before it.
Cond(rule) == [neg |-> FALSE, part |-> rule.part, op |-> rule.op, val |-> rule.val]

\* f"!{c}" if c[0] != "!" else c
Negate(c) == IF c.neg THEN c ELSE [c EXCEPT !.neg = TRUE]

NegateAll(conds) == [k \in 1..Len(conds) |-> Negate(conds[k])]

\* The first loop's result for rule i of a workflow: its own condition (none
\* for the last rule), then the negated conditions of the entry before it,
\* which has been extended already.
RECURSIVE ConvertedCond(_, _)
ConvertedCond(rules, i) ==
    LET own == IF i < Len(rules) THEN <<Cond(rules[i])>> ELSE <<>>
    IN  IF i = 1 THEN own ELSE own \o NegateAll(ConvertedCond(rules, i - 1))

ConvertWorkflow(rules) ==
    [i \in 1..Len(rules) |-> [cond |-> ConvertedCond(rules, i), name |-> rules[i].name]]

\* The for loop over current_workflow of one pass.  An option that is not
\* "A" or "R" rebinds the "cond" of every dictionary of the workflow it
\* names to a copy extended by the option's conditions, and appends those
\* same dictionaries (not copies of them) to next_workflow.
RECURSIVE ExpandFrom(_, _, _, _)
ExpandFrom(heap, cur, i, next) ==
    IF i > Len(cur) THEN [heap |-> heap, next |-> next]
    ELSE LET ref == cur[i]
             option == heap[ref[1]][ref[2]]
         IN  IF option.name \in {"A", "R"}
             THEN ExpandFrom(heap, cur, i + 1, Append(next, ref))
             ELSE LET tgt == option.name
                      extended == [j \in 1..Len(heap[tgt]) |->
                                     [heap[tgt][j] EXCEPT !.cond = @ \o option.cond]]
                      refs == [j \in 1..Len(heap[tgt]) |-> <<tgt, j>>]
                  IN  ExpandFrom([heap EXCEPT ![tgt] = extended], cur, i + 1, next \o refs)

\* One condition applied to part_values, kept as the set of values whose
\* flag is still True.
Keeps(c, pv) ==
    IF c.op = "<"
    THEN IF c.neg THEN ~(pv < c.val) ELSE pv < c.val
    ELSE IF c.neg THEN ~(pv > c.val) ELSE pv > c.val

RECURSIVE PartValuesAfter(_, _, _)
PartValuesAfter(conds, i, part_values) ==
    IF i > Len(conds) THEN part_values
    ELSE PartValuesAfter(conds, i + 1,
            [part_values EXCEPT ![conds[i].part] = {pv \in @ : Keeps(conds[i], pv)}])

RECURSIVE ProductFrom(_, _)
ProductFrom(part_values, k) ==
    IF k > Len(PART_NAMES) THEN 1
    ELSE Cardinality(part_values[PART_NAMES[k]]) * ProductFrom(part_values, k + 1)

num_per_accept_path(accept_path_cond) ==
    ProductFrom(
        PartValuesAfter(accept_path_cond, 1,
            [n \in Range(PART_NAMES) |-> MIN_PART_VALUE..MAX_PART_VALUE]),
        1)

\* __main__: the sum over the returned paths named "A".
RECURSIVE SumAcceptFrom(_, _, _)
SumAcceptFrom(heap, cur, i) ==
    IF i > Len(cur) THEN 0
    ELSE LET path == heap[cur[i][1]][cur[i][2]]
         IN  (IF path.name = "A" THEN num_per_accept_path(path.cond) ELSE 0)
                + SumAcceptFrom(heap, cur, i + 1)

num_paths == SumAcceptFrom(wf_heap, current_workflow, 1)

Init19b ==
    /\ \E rin \in WellFormedLists({"b", "c", "A", "R"}),
          rb \in WellFormedLists({"c", "A", "R"}),
          rc \in WellFormedLists({"A", "R"}) :
            user_workflows = [n \in {"in", "b", "c"} |->
                                IF n = "in" THEN rin ELSE IF n = "b" THEN rb ELSE rc]
    /\ wf_heap = user_workflows
    /\ current_workflow = <<>>
    /\ pc19b = "convert"
    /\ IdleBut("19b")

\* The first for loop, and current_workflow = workflows["in"].
AcceptPathsConvert ==
    /\ pc19b = "convert"
    /\ wf_heap' = [n \in DOMAIN wf_heap |-> ConvertWorkflow(wf_heap[n])]
    /\ current_workflow' = [j \in 1..Len(wf_heap["in"]) |-> <<"in", j>>]
    /\ pc19b' = "loop"
    /\ UNCHANGED user_workflows
    /\ UnchangedBut("19b")

\* One iteration of `while flag_not_all_ar`.
AcceptPathsPass ==
    /\ pc19b = "loop"
    /\ LET flag_not_all_ar ==
               \E i \in 1..Len(current_workflow) :
                   wf_heap[current_workflow[i][1]][current_workflow[i][2]].name
                       \notin {"A", "R"}
           res == ExpandFrom(wf_heap, current_workflow, 1, <<>>)
       IN  /\ wf_heap' = res.heap
           /\ current_workflow' = res.next
           /\ pc19b' = IF flag_not_all_ar THEN "loop" ELSE "done"
    /\ UNCHANGED user_workflows
    /\ UnchangedBut("19b")

Next19b == AcceptPathsConvert \/ AcceptPathsPass

Spec19b == Init19b /\ [][Next19b]_vars

\* Part by part: first true rule wins, the last rule is the fallback.
RECURSIVE Accepted(_, _, _)
Accepted(wfs, name, part) ==
    IF name \in {"A", "R"} THEN name = "A"
    ELSE Accepted(wfs, FirstTarget(wfs[name], part, 1), part)

AllParts == [Range(PART_NAMES) -> MIN_PART_VALUE..MAX_PART_VALUE]

\* C3: the sum of num_per_accept_path over the returned paths named "A" is
\* the number of parts the workflows accept, also when a workflow is the
\* target of two rules.
C3_SumCountsAcceptedParts ==
    pc19b = "done" =>
        num_paths = Cardinality({part \in AllParts : Accepted(user_workflows, "in", part)})

----------------------------------------------------------------------------
(* Day 5: src/05/main.py, apply_map_number, apply_map_range and            *)
(* get_min_seed_mapping_ranges                                             *)

\* Seed starts, source starts and destination starts are drawn from 0..MaxPos.
MaxPos == 1

\* Seed ranges have a length in 0..MaxSeedLen, map rows in 0..MaxRowLen.
MaxSeedLen == 3

MaxRowLen == 2

\* The numbers of seed ranges drawn for the seed line.
SeedCounts == {1, 2}

\* The files drawn: no map, one map of one or two rows, two maps of one row.
MapShapes == {<<>>, <<1>>, <<2>>, <<1, 1>>}

\* A row is <<destination_start, source_start, range_len>>; a range is
\* <<start, length>>.
Rows == (0..MaxPos) \X (0..MaxPos) \X (0..MaxRowLen)

SeedRanges == (0..MaxPos) \X (0..MaxSeedLen)

\* apply_map_number: the first row that holds the number maps it.
RECURSIVE MapNumberFrom(_, _, _)
MapNumberFrom(map_array, source_number, i) ==
    IF i > Len(map_array) THEN source_number
    ELSE LET destination_start == map_array[i][1]
             source_start == map_array[i][2]
             range_len == map_array[i][3]
         IN  IF source_start <= source_number /\ source_number < source_start + range_len
             THEN destination_start + (source_number - source_start)
             ELSE MapNumberFrom(map_array, source_number, i + 1)

apply_map_number(map_array, source_number) == MapNumberFrom(map_array, source_number, 1)

\* The test that sends a source range on to new_source_ranges untouched.
Disjoint(row, source_range) ==
    \/ row[2] + row[3] - 1 < source_range[1]
    \/ source_range[1] + source_range[2] - 1 < row[2]

\* The range appended to mapped_numbers for an overlapping row.
MappedRange(row, source_range) ==
    LET mapped_start == Max(row[2], source_range[1])
        mapped_end == Min(row[2] + row[3] - 1, source_range[1] + source_range[2] - 1)
        mapped_len == mapped_end - mapped_start + 1
    IN  <<mapped_start + row[1] - row[2], mapped_len>>

\* A plausible slip: the left remainder keeps one number too many.
SplitSourceLong(row, source_range) ==
    LET mapped_start == Max(row[2], source_range[1])
        mapped_end == Min(row[2] + row[3] - 1, source_range[1] + source_range[2] - 1)
        mapped_len == mapped_end - mapped_start + 1
    IN  IF mapped_start = source_range[1] /\ mapped_len = source_range[2]
        THEN <<>>
        ELSE IF mapped_start = source_range[1]
        THEN <<<<mapped_end + 1, source_range[2] - mapped_len>>>>
        ELSE IF mapped_end = source_range[1] + source_range[2] - 1
        THEN <<<<source_range[1], source_range[2] - mapped_len>>>>
        ELSE <<<<source_range[1], mapped_start - source_range[1] + 1>>,
               <<mapped_end + 1, source_range[1] + source_range[2] - 1 - mapped_end>>>>

\* The ranges of the source range left for the later rows.
SplitSource(row, source_range) ==
    LET mapped_start == Max(row[2], source_range[1])
        mapped_end == Min(row[2] + row[3] - 1, source_range[1] + source_range[2] - 1)
        mapped_len == mapped_end - mapped_start + 1
    IN  IF mapped_start = source_range[1] /\ mapped_len = source_range[2]
        THEN <<>>
        ELSE IF mapped_start = source_range[1]
        THEN <<<<mapped_end + 1, source_range[2] - mapped_len>>>>
        ELSE IF mapped_end = source_range[1] + source_range[2] - 1
        THEN <<<<source_range[1], source_range[2] - mapped_len>>>>
        ELSE <<<<source_range[1], mapped_start - source_range[1]>>,
               <<mapped_end + 1, source_range[1] + source_range[2] - 1 - mapped_end>>>>

\* The inner for loop: one row over every source range, from range i on.
RECURSIVE ApplyRowFrom(_, _, _, _, _)
ApplyRowFrom(row, ranges, i, mapped_numbers, new_source_ranges) ==
    IF i > Len(ranges)
    THEN [mapped |-> mapped_numbers, rest |-> new_source_ranges]
    ELSE IF Disjoint(row, ranges[i])
    THEN ApplyRowFrom(row, ranges, i + 1, mapped_numbers,
                      Append(new_source_ranges, ranges[i]))
    ELSE ApplyRowFrom(row, ranges, i + 1,
                      Append(mapped_numbers, MappedRange(row, ranges[i])),
                      new_source_ranges \o SplitSource(row, ranges[i]))

\* The outer for loop over the rows, then "add unmapped back".
RECURSIVE ApplyRowsFrom(_, _, _, _)
ApplyRowsFrom(map_array, i, mapped_numbers, ranges) ==
    IF i > Len(map_array) THEN mapped_numbers \o ranges
    ELSE LET res == ApplyRowFrom(map_array[i], ranges, 1, mapped_numbers, <<>>)
         IN  ApplyRowsFrom(map_array, i + 1, res.mapped, res.rest)

apply_map_range(map_array, ranges) == ApplyRowsFrom(map_array, 1, <<>>, ranges)

\* min(seed_ranges, key=lambda tup: tup[0])[0]
MinStart(ranges) ==
    CHOOSE v \in {ranges[i][1] : i \in 1..Len(ranges)} :
        \A i \in 1..Len(ranges) : v <= ranges[i][1]

\* The lists of maps of one shape: map k has shape[k] rows.
MapLists(shape) ==
    IF shape = <<>> THEN {<<>>}
    ELSE IF Len(shape) = 1 THEN {<<m>> : m \in [1..shape[1] -> Rows]}
    ELSE {<<m1, m2>> : m1 \in [1..shape[1] -> Rows], m2 \in [1..shape[2] -> Rows]}

Init05 ==
    /\ seed_input \in UNION {[1..k -> SeedRanges] : k \in SeedCounts}
    /\ map_arrays \in UNION {MapLists(shape) : shape \in MapShapes}
    /\ seed_ranges = seed_input
    /\ source_ranges = <<>>
    /\ map_ind = 0
    /\ min_location = 0
    /\ pc05 = "loop"
    /\ IdleBut("05")

\* One iteration of `for map_string in map_strings`.
ApplyMap ==
    /\ pc05 = "loop"
    /\ map_ind < Len(map_arrays)
    /\ source_ranges' = seed_ranges
    /\ seed_ranges' = apply_map_range(map_arrays[map_ind + 1], seed_ranges)
    /\ map_ind' = map_ind + 1
    /\ UNCHANGED <<seed_input, map_arrays, min_location, pc05>>
    /\ UnchangedBut("05")

\* The return statement; min() of an empty list raises ValueError.
ReturnMin ==
    /\ pc05 = "loop"
    /\ map_ind = Len(map_arrays)
    /\ IF seed_ranges = <<>>
       THEN /\ pc05' = "raised"
            /\ min_location' = min_location
       ELSE /\ pc05' = "done"
            /\ min_location' = MinStart(seed_ranges)
    /\ UNCHANGED <<seed_input, map_arrays, seed_ranges, source_ranges, map_ind>>
    /\ UnchangedBut("05")

Next05 == ApplyMap \/ ReturnMin

Spec05 == Init05 /\ [][Next05]_vars

\* No integer a run can reach lies above this.
ValueBound == MaxPos + MaxSeedLen + 2 * MaxPos

\* The integers a list of ranges covers, as <<range index, integer>> pairs,
\* so that an integer covered twice counts twice.
Covered(ranges) ==
    UNION {{<<i, v>> : v \in ranges[i][1]..(ranges[i][1] + ranges[i][2] - 1)}
           : i \in 1..Len(ranges)}

\* How often v occurs among the integers the ranges cover.
CountIn(ranges, v) ==
    Cardinality({i \in 1..Len(ranges) :
                    ranges[i][1] <= v /\ v < ranges[i][1] + ranges[i][2]})

\* How often v occurs among the images of the integers the ranges cover.
CountImage(map_array, ranges, v) ==
    Cardinality({c \in Covered(ranges) : apply_map_number(map_array, c[2]) = v})

AllPositive(seqs, k) == \A i \in 1..Len(seqs) : seqs[i][k] >= 1

\* C4: with every row and every source range of length >= 1, the ranges
\* apply_map_range returns cover exactly the multiset of the images under
\* apply_map_number of the integers the source ranges cover.
C4_RangeMapRefinesNumberMap ==
    (map_ind >= 1 /\ AllPositive(map_arrays[map_ind], 3) /\ AllPositive(source_ranges, 2)) =>
        \A v \in 0..ValueBound :
            CountIn(seed_ranges, v) = CountImage(map_arrays[map_ind], source_ranges, v)

\* One source range split in the middle by the first of two rows that
\* overlap each other, the second row mapping one of the two remainders.
C4_Witness ==
    /\ map_ind = 1
    /\ Len(map_arrays[1]) = 2
    /\ AllPositive(map_arrays[1], 3)
    /\ AllPositive(source_ranges, 2)
    /\ ~Disjoint(map_arrays[1][1], <<map_arrays[1][2][2], map_arrays[1][2][3]>>)
    /\ Len(source_ranges) = 1
    /\ source_ranges[1][1] < map_arrays[1][1][2]
    /\ map_arrays[1][1][2] + map_arrays[1][1][3] < source_ranges[1][1] + source_ranges[1][2]
    /\ Len(seed_ranges) = 3
    /\ seed_ranges[2][1] # source_ranges[1][1]

\* Every seed number through every map, as get_min_seed_mapping_number does.
RECURSIVE MapThrough(_, _, _)
MapThrough(maps, i, n) ==
    IF i > Len(maps) THEN n ELSE MapThrough(maps, i + 1, apply_map_number(maps[i], n))

SeedImages == {MapThrough(map_arrays, 1, c[2]) : c \in Covered(seed_input)}

\* C5: with at least one non-empty seed range, the value returned is the
\* image of a seed number and no seed number maps to a smaller value.
C5_ReturnsLowestLocation ==
    (\E i \in 1..Len(seed_input) : seed_input[i][2] >= 1) =>
        /\ pc05 # "raised"
        /\ pc05 = "done" =>
            /\ min_location \in SeedImages
            /\ \A w \in SeedImages : min_location <= w

----------------------------------------------------------------------------
(* Day 8: src/08/main.py, go_path_one and go_path *)

\* The node names of the drawn networks.
Nodes == {"AAA", "BBB", "ZZZ"}

\* The longest instruction line drawn.
MaxPathLen == 2

\* The lengths of the start and end lists drawn.
NodeListLens == {1, 2}

NodeLists == UNION {[1..k -> Nodes] : k \in NodeListLens}

\* set(current_nodes) <= set(end_nodes)
AtEnd(nodes, ends) == Range(nodes) \subseteq Range(ends)

\* One instruction applied to every current node.
StepNodes(map, step, nodes) ==
    LET ind_step == IF step = "L" THEN 1 ELSE 2
    IN  [k \in 1..Len(nodes) |-> map[nodes[k]][ind_step]]

\* go_path_one from instruction ind + 1 on (ind instructions done): the
\* end test comes before each instruction and not after the last one.
RECURSIVE GoPathOneFrom(_, _, _, _, _)
GoPathOneFrom(path, map, nodes, ends, ind) ==
    IF ind >= Len(path) THEN <<nodes, Len(path)>>
    ELSE IF AtEnd(nodes, ends) THEN <<ends, ind>>
    ELSE GoPathOneFrom(path, map, StepNodes(map, path[ind + 1], nodes), ends, ind + 1)

go_path_one(path, map, starts, ends) == GoPathOneFrom(path, map, starts, ends, 0)

\* A plausible slip: a pass counts as a loop when it ends on the first
\* node of an earlier pass.
LoopSeenFirstNode(next_nodes, seen) ==
    \E k \in 1..Len(seen) : seen[k][1] = next_nodes[1]

\* next_nodes in current_nodes: list equality with an earlier entry.
LoopSeen(next_nodes, seen) ==
    \E k \in 1..Len(seen) : seen[k] = next_nodes

\* A plausible slip: the pass that ends early counts the instruction it
\* stopped before.
PassStepsOneMore(res) == IF res[2] < Len(network_path) THEN res[2] + 1 ELSE res[2]

\* next_steps, the second value go_path_one returned.
PassSteps(res) == res[2]

Init08 ==
    /\ network_path \in UNION {[1..k -> {"L", "R"}] : k \in 1..MaxPathLen}
    /\ network_map \in [Nodes -> Nodes \X Nodes]
    /\ start_nodes \in NodeLists
    /\ end_nodes \in NodeLists
    /\ current_nodes = <<start_nodes>>
    /\ steps = 0
    /\ pc08 = "loop"
    /\ IdleBut("08")

\* One iteration of `while not set(current_nodes[-1]) <= set(end_nodes)`.
GoPathIter ==
    /\ pc08 = "loop"
    /\ ~AtEnd(current_nodes[Len(current_nodes)], end_nodes)
    /\ LET res == go_path_one(network_path, network_map,
                              current_nodes[Len(current_nodes)], end_nodes)
           next_nodes == res[1]
       IN  IF LoopSeen(next_nodes, current_nodes)
           THEN /\ pc08' = "raised"
                /\ UNCHANGED <<current_nodes, steps>>
           ELSE /\ current_nodes' = Append(current_nodes, next_nodes)
                /\ steps' = steps + PassSteps(res)
                /\ pc08' = pc08
    /\ UNCHANGED <<network_path, network_map, start_nodes, end_nodes>>
    /\ UnchangedBut("08")

\* The loop condition fails: return steps.
GoPathReturn ==
    /\ pc08 = "loop"
    /\ AtEnd(current_nodes[Len(current_nodes)], end_nodes)
    /\ pc08' = "done"
    /\ UNCHANGED <<network_path, network_map, start_nodes, end_nodes,
                   current_nodes, steps>>
    /\ UnchangedBut("08")

Next08 == GoPathIter \/ GoPathReturn

Spec08 == Init08 /\ [][Next08]_vars

\* There are at most this many pairs of a list of two current nodes and a
\* position in the instructions: a walk that has not reached the end
\* within this many steps never does.
StepHorizon == Cardinality(Nodes) * Cardinality(Nodes) * MaxPathLen

\* The walk one instruction at a time, the instructions repeated: the
\* least number of steps n >= done after which all nodes are end nodes,
\* given the nodes after `done` steps; -1 when there is none.
RECURSIVE FirstEndFrom(_, _)
FirstEndFrom(nodes, done) ==
    IF AtEnd(nodes, end_nodes) THEN done
    ELSE IF done >= StepHorizon THEN -1
    ELSE FirstEndFrom(
            StepNodes(network_map, network_path[(done % Len(network_path)) + 1], nodes),
            done + 1)

FirstEnd == FirstEndFrom(start_nodes, 0)

Unreachable == FirstEnd = -1

\* C6: the value go_path returns is the least n >= 0 such that all current
\* nodes are end nodes after n steps.
C6_ReturnsLeastStepCount ==
    pc08 = "done" => steps = FirstEnd

\* The end reached in the middle of a later pass, from two start nodes.
C6_Witness ==
    /\ pc08 = "done"
    /\ Len(start_nodes) = 2
    /\ start_nodes[1] # start_nodes[2]
    /\ steps > Len(network_path)
    /\ steps % Len(network_path) # 0

\* C7: go_path raises only when no number of steps brings all current
\* nodes into end_nodes, returns only when some number does, and cannot
\* go on for ever: every pass adds a list of nodes not seen before.
C7_RaisesIffUnreachable ==
    /\ pc08 = "raised" => Unreachable
    /\ pc08 = "done" => ~Unreachable
    /\ \A j, k \in 1..Len(current_nodes) : j # k => current_nodes[j] # current_nodes[k]
    /\ pc08 \in {"loop", "done", "raised"}

\* The loop found after more than one pass.
C7_Witness ==
    /\ pc08 = "raised"
    /\ Len(current_nodes) >= 3
    /\ Len(network_path) = 2

----------------------------------------------------------------------------
(* Day 4: src/04/main.py, get_match_card and get_total_number_cards *)

\* The most cards a file holds.
MaxCards == 4

\* The numbers printed on the cards are drawn from 1..MaxCardNumber.
MaxCardNumber == 2

\* The most winning numbers and the most numbers you have on one card.
MaxWinning == 2

MaxHave == 3

NumberLists(longest) == UNION {[1..k -> 1..MaxCardNumber] : k \in 0..longest}

\* sum((num in winning_numbers) for num in numbers_you_have)
get_match_card(winning_numbers, numbers_you_have) ==
    Cardinality({k \in 1..Len(numbers_you_have) :
                    numbers_you_have[k] \in Range(winning_numbers)})

\* queue_copies.popleft() + 1, or 1 when the deque is empty (IndexError).
NumCopies(queue) == IF queue = <<>> THEN 1 ELSE Head(queue) + 1

AfterPop(queue) == IF queue = <<>> THEN queue ELSE Tail(queue)

\* A plausible slip: every card wins one copy of each next card, however
\* many copies of it there are.
RECURSIVE UpdateQueueByOne(_, _, _, _)
UpdateQueueByOne(queue, ind, copy_cards, num_copies) ==
    IF ind >= copy_cards THEN queue
    ELSE IF ind + 1 <= Len(queue)
    THEN UpdateQueueByOne([queue EXCEPT ![ind + 1] = @ + 1],
                          ind + 1, copy_cards, num_copies)
    ELSE UpdateQueueByOne(Append(queue, 1), ind + 1, copy_cards, num_copies)

\* for ind in range(copy_cards): queue_copies[ind] += num_copies, or
\* append num_copies when the index is past the end (IndexError).
RECURSIVE UpdateQueue(_, _, _, _)
UpdateQueue(queue, ind, copy_cards, num_copies) ==
    IF ind >= copy_cards THEN queue
    ELSE IF ind + 1 <= Len(queue)
    THEN UpdateQueue([queue EXCEPT ![ind + 1] = @ + num_copies],
                     ind + 1, copy_cards, num_copies)
    ELSE UpdateQueue(Append(queue, num_copies), ind + 1, copy_cards, num_copies)

Init04 ==
    /\ queue_copies = <<>>
    /\ num_cards = 0
    /\ card_matches = <<>>
    /\ pc04 = "loop"
    /\ IdleBut("04")

\* One iteration of `for card in f`, on the next line of the file.
ReadCard ==
    /\ pc04 = "loop"
    /\ Len(card_matches) < MaxCards
    /\ \E winning_numbers \in NumberLists(MaxWinning),
          numbers_you_have \in NumberLists(MaxHave) :
            LET num_copies == NumCopies(queue_copies)
                copy_cards == get_match_card(winning_numbers, numbers_you_have)
            IN  /\ num_cards' = num_cards + num_copies
                /\ queue_copies' = UpdateQueue(AfterPop(queue_copies), 0,
                                               copy_cards, num_copies)
                /\ card_matches' = Append(card_matches, copy_cards)
    /\ pc04' = pc04
    /\ UnchangedBut("04")

\* The file ends: return num_cards.
ReturnNumCards ==
    /\ pc04 = "loop"
    /\ pc04' = "done"
    /\ UNCHANGED <<queue_copies, num_cards, card_matches>>
    /\ UnchangedBut("04")

Next04 == ReadCard \/ ReturnNumCards

Spec04 == Init04 /\ [][Next04]_vars

\* copies(i) = 1 + the copies of every earlier card j with i - j <= matches(j)
RECURSIVE Copies(_)
Copies(i) ==
    LET RECURSIVE SumFrom(_)
        SumFrom(j) ==
            IF j >= i THEN 0
            ELSE (IF i - j <= card_matches[j] THEN Copies(j) ELSE 0) + SumFrom(j + 1)
    IN  1 + SumFrom(1)

RECURSIVE SumCopies(_)
SumCopies(i) == IF i = 0 THEN 0 ELSE Copies(i) + SumCopies(i - 1)

\* C8: get_total_number_cards returns the sum over the cards of copies(i);
\* copies won for positions past the last card are not counted.
C8_TotalIsSumOfCopies ==
    pc04 = "done" => num_cards = SumCopies(Len(card_matches))

\* A file whose last card still wins copies, after a card held in several
\* copies has won some.
C8_Witness ==
    /\ pc04 = "done"
    /\ Len(card_matches) = MaxCards
    /\ queue_copies # <<>>
    /\ \E i \in 1..Len(card_matches) : Copies(i) >= 3 /\ card_matches[i] >= 2

----------------------------------------------------------------------------
(* Day 15: src/15/main.py, holiday_hash *)

\* The longest string hashed.
MaxStringLen == 3

\* char.encode("ASCII")[0]: the codes of the ASCII characters.
AsciiCodes == 0..127

\* a & b on non-negative integers, bit by bit.
RECURSIVE BitAnd(_, _)
BitAnd(a, b) ==
    IF a = 0 \/ b = 0 THEN 0
    ELSE (a % 2) * (b % 2) + 2 * BitAnd(a \div 2, b \div 2)

\* v << k
RECURSIVE ShiftLeft(_, _)
ShiftLeft(v, k) == IF k = 0 THEN v ELSE ShiftLeft(2 * v, k - 1)

\* (char.encode("ASCII")[0] + curr_value) & 255
AddCode(code, curr) == BitAnd(code + curr, 255)

\* A plausible slip: the shift is one bit short, which multiplies by 9.
ShiftAddShort(v) == BitAnd(ShiftLeft(v, 3) + v, 255)

\* ((curr_value << 4) + curr_value) & 255
ShiftAdd(v) == BitAnd(ShiftLeft(v, 4) + v, 255)

\* The whole loop of holiday_hash over a string given as its codes.
RECURSIVE HashFrom(_, _, _)
HashFrom(codes, i, curr) ==
    IF i > Len(codes) THEN curr
    ELSE HashFrom(codes, i + 1, ShiftAdd(AddCode(codes[i], curr)))

holiday_hash(codes) == HashFrom(codes, 1, 0)

Init15h ==
    /\ curr_value = 0
    /\ sum_value = 0
    /\ chars_hashed = 0
    /\ plain_value = 0
    /\ pc15h = "loop"
    /\ IdleBut("15h")

\* One iteration of `for char in input_string`, on the next character;
\* plain_value follows the docstring: add the code, multiply by 17, take
\* the remainder with 256.
HashChar ==
    /\ pc15h = "loop"
    /\ chars_hashed < MaxStringLen
    /\ \E code \in AsciiCodes :
            /\ sum_value' = AddCode(code, curr_value)
            /\ curr_value' = ShiftAdd(AddCode(code, curr_value))
            /\ plain_value' = ((plain_value + code) * 17) % 256
    /\ chars_hashed' = chars_hashed + 1
    /\ pc15h' = pc15h
    /\ UnchangedBut("15h")

\* The string ends: return curr_value.
HashReturn ==
    /\ pc15h = "loop"
    /\ pc15h' = "done"
    /\ UNCHANGED <<curr_value, sum_value, chars_hashed, plain_value>>
    /\ UnchangedBut("15h")

Next15h == HashChar \/ HashReturn

Spec15h == Init15h /\ [][Next15h]_vars

\* C10: holiday_hash returns the value of the add, multiply by 17, modulo
\* 256 recurrence; the shift-and-mask form equals (v * 17) % 256 on every
\* intermediate v; the result lies in 0..255.
C10_HashIsTimes17Mod256 ==
    /\ curr_value = plain_value
    /\ curr_value = (sum_value * 17) % 256
    /\ curr_value \in 0..255

\* A returned hash of a full-length string whose last sum needed both the
\* mask of the addition and the mask of the shift.
C10_Witness ==
    /\ pc15h = "done"
    /\ chars_hashed = MaxStringLen
    /\ sum_value >= 128
    /\ curr_value < sum_value
    /\ curr_value # 0

----------------------------------------------------------------------------
(* Day 15: src/15/main.py, holiday_hash_map and BOXES *)

\* The most steps a file holds.
MaxSteps == 4

\* The focal lengths of the "=" steps.
FocalLengths == {0, 1}

\* The labels "pc", "ot", "ab" (one box) and "rn" (another), as codes.
Labels == {<<112, 99>>, <<111, 116>>, <<97, 98>>, <<114, 110>>}

\* len(BOXES)
NumBoxes == 256

\* A step string split as holiday_hash_map splits it: "label=f" gives the
\* label and int(f); "label-" gives the label and -1.
SetStep(label, f) == [label |-> label, focal_length |-> f]

RemoveStep(label) == [label |-> label, focal_length |-> -1]

StepStrings ==
    {SetStep(l, f) : l \in Labels, f \in FocalLengths} \cup {RemoveStep(l) : l \in Labels}

\* The position of a key in an OrderedDict, 0 when it is not a key.
KeyIndex(box, label) ==
    IF \E k \in 1..Len(box) : box[k][1] = label
    THEN CHOOSE k \in 1..Len(box) : box[k][1] = label
    ELSE 0

\* A plausible slip: an assignment that deletes the key and inserts it
\* again, which moves it to the end.
SetLensAtEnd(box, label, focal_length) ==
    LET others == SelectSeq(box, LAMBDA e : e[1] # label)
    IN  Append(others, <<label, focal_length>>)

\* boxes[box_ind][label] = focal_length: a key the OrderedDict holds keeps
\* its place, a new key goes to the end.
SetLens(box, label, focal_length) ==
    IF KeyIndex(box, label) # 0
    THEN [box EXCEPT ![KeyIndex(box, label)] = <<label, focal_length>>]
    ELSE Append(box, <<label, focal_length>>)

\* boxes[box_ind].pop(label, None)
PopLens(box, label) == SelectSeq(box, LAMBDA e : e[1] # label)

\* holiday_hash(label) of every label of the file.
BoxOfLabel == [l \in Labels |-> holiday_hash(l)]

Init15 ==
    /\ boxes = [b \in 0..(NumBoxes - 1) |-> <<>>]
    /\ steps_done = <<>>
    /\ IdleBut("15")

\* holiday_hash_map(BOXES, step) for the next step of the file.
HashMapStep ==
    /\ Len(steps_done) < MaxSteps
    /\ \E step \in StepStrings :
            LET box_ind == BoxOfLabel[step.label]
            IN  /\ boxes' = [boxes EXCEPT ![box_ind] =
                                IF step.focal_length >= 0
                                THEN SetLens(@, step.label, step.focal_length)
                                ELSE PopLens(@, step.label)]
                /\ steps_done' = Append(steps_done, step)
    /\ UnchangedBut("15")

Next15 == HashMapStep

Spec15 == Init15 /\ [][Next15]_vars

\* The steps of a label: its most recent step, its last "-" step, and its
\* first "=" step since then (each 0 when there is none).
StepsOf(label) == {i \in 1..Len(steps_done) : steps_done[i].label = label}

MaxOf(S) == IF S = {} THEN 0 ELSE CHOOSE i \in S : \A j \in S : j <= i

MinOf(S) == IF S = {} THEN 0 ELSE CHOOSE i \in S : \A j \in S : i <= j

LastStep(label) == MaxOf(StepsOf(label))

LastRemove(label) ==
    MaxOf({i \in StepsOf(label) : steps_done[i].focal_length < 0})

SlotStep(label) ==
    MinOf({i \in StepsOf(label) :
            i > LastRemove(label) /\ steps_done[i].focal_length >= 0})

Installed(label) ==
    LastStep(label) # 0 /\ steps_done[LastStep(label)].focal_length >= 0

\* What the steps say box b holds: the installed labels that hash to b,
\* in the order of their slot steps, each with its most recent focal length.
SaidBox(b) ==
    LET here == {l \in Labels : Installed(l) /\ BoxOfLabel[l] = b}
        rank(l) == Cardinality({o \in here : SlotStep(o) <= SlotStep(l)})
    IN  [k \in 1..Cardinality(here) |->
            LET l == CHOOSE o \in here : rank(o) = k
            IN  <<l, steps_done[LastStep(l)].focal_length>>]

\* C9: after any sequence of steps every box holds exactly the labels whose
\* most recent step is "=", each with the focal length of that step, in the
\* order of their first "=" step since their last "-" step.
C9_BoxesFollowSteps ==
    /\ \A l \in Labels : boxes[BoxOfLabel[l]] = SaidBox(BoxOfLabel[l])
    /\ \A b \in 0..(NumBoxes - 1) :
            boxes[b] # <<>> => \E l \in Labels : Installed(l) /\ BoxOfLabel[l] = b

\* A removal closed the gap before a label that was then assigned again.
C9_Witness ==
    \E kept, gone \in Labels :
        /\ BoxOfLabel[kept] = BoxOfLabel[gone]
        /\ Installed(kept)
        /\ SlotStep(kept) < LastStep(kept)
        /\ LastRemove(gone) > SlotStep(kept)
        /\ LastRemove(gone) = LastStep(gone)
        /\ \E i \in StepsOf(gone) : i < SlotStep(kept) /\ steps_done[i].focal_length >= 0
        /\ boxes[BoxOfLabel[kept]][1][1] = kept

----------------------------------------------------------------------------
(* Day 15: src/15/main.py, read_steps and the sum of hashes of __main__ *)

\* The longest step file, in characters.
MaxFileLen == 4

\* The characters of a step file: "a", "," and the newline.
FileChars == {97, 44, 10}

NewlineCode == 10

CommaCode == 44

FileTexts == UNION {[1..n -> FileChars] : n \in 0..MaxFileLen}

\* `for line in f`: the lines of the file, each with its line end.
RECURSIVE LinesFrom(_, _, _)
LinesFrom(text, i, line) ==
    IF i > Len(text) THEN (IF line = <<>> THEN <<>> ELSE <<line>>)
    ELSE IF text[i] = NewlineCode
         THEN <<Append(line, text[i])>> \o LinesFrom(text, i + 1, <<>>)
         ELSE LinesFrom(text, i + 1, Append(line, text[i]))

\* "".join(lines)
RECURSIVE JoinFrom(_, _)
JoinFrom(lines, k) ==
    IF k > Len(lines) THEN <<>> ELSE lines[k] \o JoinFrom(lines, k + 1)

\* steps.split(",")
RECURSIVE SplitFrom(_, _, _)
SplitFrom(text, i, piece) ==
    IF i > Len(text) THEN <<piece>>
    ELSE IF text[i] = CommaCode
         THEN <<piece>> \o SplitFrom(text, i + 1, <<>>)
         ELSE SplitFrom(text, i + 1, Append(piece, text[i]))

read_steps(text) == SplitFrom(JoinFrom(LinesFrom(text, 1, <<>>), 1), 1, <<>>)

\* sum(holiday_hash(step) for step in user_steps)
RECURSIVE SumHashFrom(_, _)
SumHashFrom(step_list, k) ==
    IF k > Len(step_list) THEN 0
    ELSE holiday_hash(step_list[k]) + SumHashFrom(step_list, k + 1)

Init15r ==
    /\ file_text \in FileTexts
    /\ user_steps = <<>>
    /\ user_hash_sum = 0
    /\ pc15r = "read"
    /\ IdleBut("15r")

\* user_steps = read_steps(args.input_file)
ReadSteps ==
    /\ pc15r = "read"
    /\ user_steps' = read_steps(file_text)
    /\ pc15r' = "sum"
    /\ UNCHANGED <<file_text, user_hash_sum>>
    /\ UnchangedBut("15r")

\* user_hash_sum = sum(holiday_hash(step) for step in user_steps)
SumHashes ==
    /\ pc15r = "sum"
    /\ user_hash_sum' = SumHashFrom(user_steps, 1)
    /\ pc15r' = "done"
    /\ UNCHANGED <<file_text, user_steps>>
    /\ UnchangedBut("15r")

Next15r == ReadSteps \/ SumHashes

Spec15r == Init15r /\ [][Next15r]_vars

\* The text of a file with its newline characters taken out.
WithoutNewlines(text) == SelectSeq(text, LAMBDA c : c # NewlineCode)

\* C11: the steps read from a file, and the sum of their hashes, are those
\* of the same text without its newline characters.
C11_NewlinesIgnored ==
    /\ pc15r \in {"sum", "done"} =>
            user_steps = SplitFrom(WithoutNewlines(file_text), 1, <<>>)
    /\ pc15r = "done" =>
            user_hash_sum = SumHashFrom(SplitFrom(WithoutNewlines(file_text), 1, <<>>), 1)

----------------------------------------------------------------------------
(* Day 1: src/01/main.py, get_calibration_number and replace_digit_names *)
(* A string is the sequence of its characters.                           *)

\* The most pieces a line is made of.
MaxPieces == 3

\* The nine digit names, in the order of the second pattern, each with the
\* string replace_digit returns for it.
DigitNames == <<
    <<<<"o", "n", "e">>, <<"1">>>>,
    <<<<"t", "w", "o">>, <<"2">>>>,
    <<<<"t", "h", "r", "e", "e">>, <<"3">>>>,
    <<<<"f", "o", "u", "r">>, <<"4">>>>,
    <<<<"f", "i", "v", "e">>, <<"5">>>>,
    <<<<"s", "i", "x">>, <<"6">>>>,
    <<<<"s", "e", "v", "e", "n">>, <<"7">>>>,
    <<<<"e", "i", "g", "h", "t">>, <<"8">>>>,
    <<<<"n", "i", "n", "e">>, <<"9">>>>>>

\* The seven combined names of the first pattern, in its order, each with
\* the string replace_digit returns for it.
CombinedNames == <<
    <<<<"t", "w", "o", "n", "e">>, <<"2", "1">>>>,
    <<<<"o", "n", "e", "i", "g", "h", "t">>, <<"1", "8">>>>,
    <<<<"e", "i", "g", "h", "t", "w", "o">>, <<"8", "2">>>>,
    <<<<"t", "h", "r", "e", "e", "i", "g", "h", "t">>, <<"3", "8">>>>,
    <<<<"f", "i", "v", "e", "i", "g", "h", "t">>, <<"5", "8">>>>,
    <<<<"s", "e", "v", "e", "n", "i", "n", "e">>, <<"7", "9">>>>,
    <<<<"n", "i", "n", "e", "i", "g", "h", "t">>, <<"9", "8">>>>>>

\* The characters "[0-9]" matches, with int() of each.
DigitChars == [c \in {"0", "1", "2", "3", "4", "5", "6", "7", "8", "9"} |->
    CASE c = "0" -> 0 [] c = "1" -> 1 [] c = "2" -> 2 [] c = "3" -> 3
      [] c = "4" -> 4 [] c = "5" -> 5 [] c = "6" -> 6 [] c = "7" -> 7
      [] c = "8" -> 8 [] c = "9" -> 9]

\* The pattern word occurs in s at position i.
MatchesAt(s, i, word) ==
    /\ i + Len(word) - 1 <= Len(s)
    /\ \A k \in 1..Len(word) : s[i + k - 1] = word[k]

\* The first alternative of a pattern that matches at position i, 0 if none.
FirstAlternative(s, i, table) ==
    IF \E a \in 1..Len(table) : MatchesAt(s, i, table[a][1])
    THEN CHOOSE a \in 1..Len(table) :
            /\ MatchesAt(s, i, table[a][1])
            /\ \A b \in 1..(a - 1) : ~MatchesAt(s, i, table[b][1])
    ELSE 0

\* re.sub(pattern, replace_digit, s): the matches are taken from the left
\* and do not overlap.
RECURSIVE SubFrom(_, _, _)
SubFrom(s, i, table) ==
    IF i > Len(s) THEN <<>>
    ELSE LET a == FirstAlternative(s, i, table)
         IN  IF a = 0 THEN <<s[i]>> \o SubFrom(s, i + 1, table)
             ELSE table[a][2] \o SubFrom(s, i + Len(table[a][1]), table)

replace_digit_names(s) == SubFrom(SubFrom(s, 1, CombinedNames), 1, DigitNames)

\* re.findall("[0-9]", s)
FindDigits(s) == SelectSeq(s, LAMBDA c : c \in DOMAIN DigitChars)

\* The pieces of a line: the digit names, a digit character, another letter.
Pieces == {DigitNames[a][1] : a \in 1..Len(DigitNames)} \cup {<<"7">>, <<"x">>}

\* The lines of k pieces; a piece that starts with the letter the line ends
\* with may share it.
RECURSIVE LinesOf(_)
LinesOf(k) ==
    IF k = 1 THEN Pieces
    ELSE LET shorter == LinesOf(k - 1)
         IN  {l \o p : l \in shorter, p \in Pieces}
                \cup UNION {{l \o Tail(p) : p \in {q \in Pieces : q[1] = l[Len(l)]}} :
                                l \in shorter}

InputLines == UNION {LinesOf(k) : k \in 1..MaxPieces}

Init01 ==
    /\ input_string \in InputLines
    /\ replaced_string = <<>>
    /\ calibration_number = 0
    /\ pc01 = "replace"
    /\ IdleBut("01")

\* input_string = replace_digit_names(input_string), with match_type True
ReplaceDigitNames ==
    /\ pc01 = "replace"
    /\ replaced_string' = replace_digit_names(input_string)
    /\ pc01' = "find"
    /\ UNCHANGED <<input_string, calibration_number>>
    /\ UnchangedBut("01")

\* m = re.findall(...); return int(m[0] + m[-1])
ReturnCalibration ==
    /\ pc01 = "find"
    /\ LET m == FindDigits(replaced_string)
       IN  IF m = <<>>
           THEN pc01' = "IndexError" /\ calibration_number' = calibration_number
           ELSE /\ calibration_number' = 10 * DigitChars[m[1]] + DigitChars[m[Len(m)]]
                /\ pc01' = "done"
    /\ UNCHANGED <<input_string, replaced_string>>
    /\ UnchangedBut("01")

Next01 == ReplaceDigitNames \/ ReturnCalibration

Spec01 == Init01 /\ [][Next01]_vars

\* The value of the digit character or digit name that starts at position
\* i of the line, -1 if none does.
ValueAt(s, i) ==
    IF s[i] \in DOMAIN DigitChars THEN DigitChars[s[i]]
    ELSE IF FirstAlternative(s, i, DigitNames) # 0
         THEN FirstAlternative(s, i, DigitNames)
         ELSE -1

Occurrences(s) == {i \in 1..Len(s) : ValueAt(s, i) # -1}

LeftmostValue(s) ==
    ValueAt(s, CHOOSE i \in Occurrences(s) : \A j \in Occurrences(s) : i <= j)

RightmostValue(s) ==
    ValueAt(s, CHOOSE i \in Occurrences(s) : \A j \in Occurrences(s) : j <= i)

\* C12: for a line with a digit character or a digit name,
\* get_calibration_number(line, True) returns ten times the value of the
\* leftmost occurrence plus the value of the rightmost one.
C12_LeftmostAndRightmost ==
    Occurrences(input_string) # {} /\ pc01 \notin {"replace", "find"} =>
        /\ pc01 = "done"
        /\ calibration_number =
                10 * LeftmostValue(input_string) + RightmostValue(input_string)

----------------------------------------------------------------------------
(* Day 7: src/07/main.py, get_hand_type and get_hand_type_joker *)

\* How many of the card labels the hands are dealt from.
NumLabels == 5

\* The keys of CARD_VALUE, in the order of the table.
CardLabelList == <<"A", "K", "Q", "J", "T", "9", "8", "7", "6", "5", "4", "3", "2">>

CardLabels == {CardLabelList[i] : i \in 1..NumLabels}

\* The 5-card hands.
Hands == [1..5 -> CardLabels]

\* A plausible slip: the comparison with hand[k] runs over hand[k:], which
\* counts the card itself.
SameAsCardInclusive(hand, k) == Cardinality({i \in k..Len(hand) : hand[i] = hand[k]})

\* sum(hand[k] == h for h in hand[k+1:]), with k counted from 1
SameAsCard(hand, k) == Cardinality({i \in (k + 1)..Len(hand) : hand[i] = hand[k]})

\* The match statement of get_hand_type; a value no case names leaves the
\* default 0.
get_hand_type(hand) ==
    LET distinct == Cardinality(Range(hand))
        first == SameAsCard(hand, 1)
        second == SameAsCard(hand, 2)
    IN  CASE distinct = 1 -> 6
          [] distinct = 2 ->
                (CASE first \in {0, 3} -> 5
                   [] first \in {1, 2} -> 4
                   [] OTHER -> 0)
          [] distinct = 3 ->
                (CASE first = 2 -> 3
                   [] first = 1 -> 2
                   [] first = 0 ->
                        (CASE second \in {2, 0} -> 3
                           [] second = 1 -> 2
                           [] OTHER -> 0)
                   [] OTHER -> 0)
          [] distinct = 4 -> 1
          [] OTHER -> 0

\* "".join(hand.split(joker))
WithoutJoker(hand, jk) == SelectSeq(hand, LAMBDA c : c # jk)

\* A plausible slip: the full house test without the length condition.
JokerTypeOfTwoAnyLength(hand_no_joker) ==
    IF Cardinality({i \in 1..Len(hand_no_joker) : hand_no_joker[i] = hand_no_joker[1]}) = 2
    THEN 4
    ELSE 5

\* case 2 of get_hand_type_joker
JokerTypeOfTwo(hand_no_joker) ==
    IF /\ Cardinality({i \in 1..Len(hand_no_joker) : hand_no_joker[i] = hand_no_joker[1]}) = 2
       /\ Len(hand_no_joker) = 4
    THEN 4
    ELSE 5

get_hand_type_joker(hand, jk) ==
    IF jk = "None" \/ jk \notin Range(hand) THEN get_hand_type(hand)
    ELSE LET hand_no_joker == WithoutJoker(hand, jk)
             distinct == Cardinality(Range(hand_no_joker))
         IN  CASE distinct \in {0, 1} -> 6
               [] distinct = 2 -> JokerTypeOfTwo(hand_no_joker)
               [] distinct = 3 -> 3
               [] distinct = 4 -> 1
               [] OTHER -> 0

Init07 ==
    /\ hand07 \in Hands
    /\ joker07 \in CardLabels \cup {"None"}
    /\ hand_type = -1
    /\ hand_type_joker = -1
    /\ pc07 = "plain"
    /\ IdleBut("07")

\* get_hand_type(hand)
GetHandType ==
    /\ pc07 = "plain"
    /\ hand_type' = get_hand_type(hand07)
    /\ pc07' = "joker"
    /\ UNCHANGED <<hand07, joker07, hand_type_joker>>
    /\ UnchangedBut("07")

\* get_hand_type_joker(hand, joker)
GetHandTypeJoker ==
    /\ pc07 = "joker"
    /\ hand_type_joker' = get_hand_type_joker(hand07, joker07)
    /\ pc07' = "done"
    /\ UNCHANGED <<hand07, joker07, hand_type>>
    /\ UnchangedBut("07")

Next07 == GetHandType \/ GetHandTypeJoker

Spec07 == Init07 /\ [][Next07]_vars

\* How often each label occurs in a hand, and the type those counts name.
LabelCount(hand, c) == Cardinality({i \in 1..Len(hand) : hand[i] = c})

LabelsWithCount(hand, n) == {c \in Range(hand) : LabelCount(hand, c) = n}

TypeOfCounts(hand) ==
    CASE LabelsWithCount(hand, 5) # {} -> 6
      [] LabelsWithCount(hand, 4) # {} -> 5
      [] LabelsWithCount(hand, 3) # {} /\ LabelsWithCount(hand, 2) # {} -> 4
      [] LabelsWithCount(hand, 3) # {} -> 3
      [] Cardinality(LabelsWithCount(hand, 2)) = 2 -> 2
      [] Cardinality(LabelsWithCount(hand, 2)) = 1 -> 1
      [] OTHER -> 0

\* C13: get_hand_type returns the type named by the multiset of the label
\* counts of the hand, whatever the order of the cards.
C13_TypeFollowsCounts ==
    pc07 \in {"joker", "done"} => hand_type = TypeOfCounts(hand07)

\* A three of a kind or a two pair whose first card is the single one, told
\* apart by the second card.
C13_Witness ==
    /\ pc07 = "done"
    /\ hand_type \in {2, 3}
    /\ LabelCount(hand07, hand07[1]) = 1

\* The hands obtained by replacing every joker card by a non-joker label.
Replacements(hand, jk) ==
    {h \in [1..Len(hand) -> CardLabels \ {jk}] : \A i \in 1..Len(hand) : hand[i] # jk => h[i] = hand[i]}

BestReplacement(hand, jk) ==
    LET types == {TypeOfCounts(h) : h \in Replacements(hand, jk)}
    IN  CHOOSE t \in types : \A u \in types : u <= t

\* C14: with the joker in the hand get_hand_type_joker is the best type of
\* the hand's replacements; without it, or with no joker, it is
\* get_hand_type of the hand.
C14_JokerTypeIsBestReplacement ==
    pc07 = "done" =>
        IF joker07 # "None" /\ joker07 \in Range(hand07)
        THEN hand_type_joker = BestReplacement(hand07, joker07)
        ELSE hand_type_joker = hand_type

\* Two jokers beside a pair and a single: four of a kind, not a full house.
C14_Witness ==
    /\ pc07 = "done"
    /\ LabelCount(hand07, joker07) = 2
    /\ Cardinality(Range(hand07)) = 3
    /\ LabelsWithCount(hand07, 1) # {}
    /\ hand_type_joker = 5

----------------------------------------------------------------------------
(* Day 7: src/07/main.py, get_winnings and the module-level CARD_VALUE *)

\* The most get_winnings calls one process makes.
MaxCalls == 2

\* CARD_VALUE as the module defines it.
CARD_VALUE_AT_IMPORT ==
    [c \in Range(CardLabelList) |->
        CASE c = "A" -> 14 [] c = "K" -> 13 [] c = "Q" -> 12 [] c = "J" -> 11
          [] c = "T" -> 10 [] c = "9" -> 9 [] c = "8" -> 8 [] c = "7" -> 7
          [] c = "6" -> 6 [] c = "5" -> 5 [] c = "4" -> 4 [] c = "3" -> 3
          [] c = "2" -> 2]

\* The labels of the hands of a file, the joker arguments, and the files:
\* two lines "hand bid" with the bids 1 and 2.
WinningLabels == {"J", "3"}

JokerArgs == {"None", "J", "3"}

WinningFiles ==
    {<<<<a, 1>>, <<b, 2>>>> : a \in [1..5 -> WinningLabels], b \in [1..5 -> WinningLabels]}

\* min(CARD_VALUE.values())
MinValue(table) ==
    CHOOSE v \in {table[c] : c \in DOMAIN table} : \A c \in DOMAIN table : v <= table[c]

\* if joker is not None: CARD_VALUE[joker] = min(CARD_VALUE.values()) - 1
SetJokerValue(table, jk) ==
    IF jk = "None" THEN table ELSE [table EXCEPT ![jk] = MinValue(table) - 1]

\* The card by card loop of compare_hands.
RECURSIVE CompareCardsFrom(_, _, _, _)
CompareCardsFrom(table, hand_a, hand_b, i) ==
    IF i > Min(Len(hand_a), Len(hand_b)) THEN 0
    ELSE IF table[hand_a[i]] # table[hand_b[i]]
         THEN (IF table[hand_a[i]] > table[hand_b[i]] THEN 1 ELSE -1)
         ELSE CompareCardsFrom(table, hand_a, hand_b, i + 1)

compare_hands(table, hand_a, hand_b, jk) ==
    LET type_a == get_hand_type_joker(hand_a, jk)
        type_b == get_hand_type_joker(hand_b, jk)
    IN  IF type_a # type_b
        THEN (IF type_a > type_b THEN 1 ELSE -1)
        ELSE CompareCardsFrom(table, hand_a, hand_b, 1)

\* ranked_hands.sort(key=...): a stable sort by compare_hands.
RECURSIVE SortFrom(_, _, _, _, _)
SortFrom(table, lines, jk, k, sorted) ==
    IF k > Len(lines) THEN sorted
    ELSE LET x == lines[k]
             before == {i \in 1..Len(sorted) :
                            compare_hands(table, sorted[i][1], x[1], jk) <= 0}
             at == Cardinality(before)
         IN  SortFrom(table, lines, jk, k + 1,
                      SubSeq(sorted, 1, at) \o <<x>> \o SubSeq(sorted, at + 1, Len(sorted)))

\* for rank, (_, bid) in enumerate(ranked_hands, start=1): winnings += rank * bid
RECURSIVE WinningsFrom(_, _)
WinningsFrom(ranked_hands, rank) ==
    IF rank > Len(ranked_hands) THEN 0
    ELSE rank * ranked_hands[rank][2] + WinningsFrom(ranked_hands, rank + 1)

\* The value get_winnings returns when CARD_VALUE holds table at its call.
WinningsWith(table, lines, jk) ==
    WinningsFrom(SortFrom(SetJokerValue(table, jk), lines, jk, 1, <<>>), 1)

Init07w ==
    /\ CARD_VALUE = CARD_VALUE_AT_IMPORT
    /\ input_file07 \in WinningFiles
    /\ joker_args = <<>>
    /\ winnings = 0
    /\ IdleBut("07w")

\* One call get_winnings(input_file, joker) of the process.
GetWinnings ==
    /\ Len(joker_args) < MaxCalls
    /\ \E jk \in JokerArgs :
            /\ CARD_VALUE' = SetJokerValue(CARD_VALUE, jk)
            /\ winnings' = WinningsWith(CARD_VALUE, input_file07, jk)
            /\ joker_args' = Append(joker_args, jk)
    /\ UNCHANGED input_file07
    /\ UnchangedBut("07w")

Next07w == GetWinnings

Spec07w == Init07w /\ [][Next07w]_vars

\* C15: the value a get_winnings call returns is the one it returns as the
\* first call of a process, whatever calls were made before it.
C15_WinningsIgnoreEarlierCalls ==
    joker_args # <<>> =>
        winnings = WinningsWith(CARD_VALUE_AT_IMPORT, input_file07,
                                joker_args[Len(joker_args)])

----------------------------------------------------------------------------
(* Day 6: src/06/main.py, get_num_win with init_vel = 0, vel_change = 1.  *)
(* The function computes in floating point.  A float is held here as the  *)
(* integer number of units 2^-(MantissaBits + 1) it is worth, which is    *)
(* exact for every value the function forms; an operation rounds its      *)
(* exact result to MantissaBits significant bits as IEEE 754 does.        *)

\* The significant bits of a float: 53 in the program, scaled down here
\* together with the inputs.
MantissaBits == 5

\* The largest time and distance of a race.
MaxTime == 10

MaxDistance == 30

RECURSIVE Pow2(_)
Pow2(k) == IF k = 0 THEN 1 ELSE 2 * Pow2(k - 1)

\* The units in 1.0.
Unit == Pow2(MantissaBits + 1)

\* The number of bits of n.
RECURSIVE BitLength(_)
BitLength(n) == IF n = 0 THEN 0 ELSE 1 + BitLength(n \div 2)

\* n rounded to MantissaBits significant bits; tie_up says where a value
\* half way between two floats goes.
RoundTo(n, tie_up) ==
    IF n < Pow2(MantissaBits) THEN n
    ELSE LET s == BitLength(n) - MantissaBits
             q == n \div Pow2(s)
             r == n % Pow2(s)
             half == Pow2(s - 1)
         IN  (IF r > half \/ (r = half /\ tie_up) THEN q + 1 ELSE q) * Pow2(s)

\* Round to nearest, ties to even: +, -, int to float, int / int.
RoundEven(n) ==
    LET s == BitLength(n) - MantissaBits
    IN  RoundTo(n, n >= Pow2(MantissaBits) /\ (n \div Pow2(s)) % 2 = 1)

SignedRound(n) == IF n < 0 THEN -RoundEven(-n) ELSE RoundEven(n)

\* float(n) of an integer n >= 0
FloatOfInt(n) == RoundEven(n * Unit)

\* The largest r with r * r <= n.
RECURSIVE IsqrtBetween(_, _, _)
IsqrtBetween(n, lo, hi) ==
    IF lo = hi THEN lo
    ELSE LET mid == (lo + hi + 1) \div 2
         IN  IF mid * mid <= n THEN IsqrtBetween(n, mid, hi)
             ELSE IsqrtBetween(n, lo, mid - 1)

\* sqrt(x), correctly rounded, for a float x > 0.
FloatSqrt(x) ==
    LET exact2 == x * Unit
        r == IsqrtBetween(exact2, 0, Pow2((BitLength(exact2) + 1) \div 2))
        s == IF BitLength(r) > MantissaBits THEN BitLength(r) - MantissaBits ELSE 0
        q == r \div Pow2(s)
    IN  (IF 4 * exact2 > (2 * q + 1) * (2 * q + 1) * Pow2(2 * s) THEN q + 1 ELSE q) * Pow2(s)

\* floor(x) == ceil(x)
IsWhole(x) == x % Unit = 0

\* floor(x) and ceil(x) of a float x >= 0
Floor(x) == x \div Unit

Ceil(x) == (x + Unit - 1) \div Unit

\* A plausible slip: a whole root is kept as a solution.
RootsInwardsKept(x_minus, x_plus) == <<x_minus, x_plus>>

\* min_root and max_root for vel_change > 0: a whole root is moved inwards
\* by one.
RootsInwards(x_minus, x_plus) ==
    <<IF IsWhole(x_minus) THEN SignedRound(x_minus + Unit) ELSE x_minus,
      IF IsWhole(x_plus) THEN SignedRound(x_plus - Unit) ELSE x_plus>>

\* get_num_win(time, distance); square_tie_up is the way b**2 rounds a tie,
\* which the C library's pow does not fix.
get_num_win(time, distance, square_tie_up) ==
    LET b == FloatOfInt(time)
        square == RoundTo((b * b) \div Unit, square_tie_up)
        quotient == FloatOfInt(4 * distance)
    IN  IF square <= quotient THEN 0
        ELSE LET disc == RoundEven(square - quotient)
                 root == FloatSqrt(disc)
                 x_plus == RoundEven(b + root) \div 2
                 x_minus == SignedRound(b - root) \div 2
                 inwards == RootsInwards(x_minus, x_plus)
                 min_sol == Ceil(Max(0, inwards[1]))
                 max_sol == Floor(Min(time * Unit, inwards[2]))
             IN  max_sol - min_sol + 1

Init06 ==
    /\ time06 \in 0..MaxTime
    /\ distance06 \in 0..MaxDistance
    /\ num_win = 0
    /\ pc06 = "call"
    /\ IdleBut("06")

\* prod *= get_num_win(t, d)
GetNumWin ==
    /\ pc06 = "call"
    /\ \E square_tie_up \in BOOLEAN :
            num_win' = get_num_win(time06, distance06, square_tie_up)
    /\ pc06' = "done"
    /\ UNCHANGED <<time06, distance06>>
    /\ UnchangedBut("06")

Next06 == GetNumWin

Spec06 == Init06 /\ [][Next06]_vars

\* The hold times that beat the record.
WinningHolds(time, distance) == {x \in 0..time : x * (time - x) > distance}

\* C16: get_num_win(time, distance) is the number of integers x in 0..time
\* with x * (time - x) > distance.
C16_CountsWinningHolds ==
    pc06 = "done" => num_win = Cardinality(WinningHolds(time06, distance06))

----------------------------------------------------------------------------
(* Day 5: src/05/main.py, get_seed_numbers and get_min_location *)

\* How many numbers the seed line holds, and the shapes of the maps.
SeedLineLens == {0, 1, 2, 3, 4}

SeedMapShapes == {<<>>, <<1>>}

\* A plausible slip: the pairs start at every index.
PairUpSliding(numbers) ==
    [k \in 1..(IF Len(numbers) = 0 THEN 0 ELSE Len(numbers) - 1) |->
        <<numbers[k], numbers[k + 1]>>]

\* [(seed_num_read[ind], seed_num_read[ind + 1])
\*  for ind in range(0, len(seed_num_read), 2)]
PairUp(numbers) ==
    [k \in 1..(Len(numbers) \div 2) |-> <<numbers[2 * k - 1], numbers[2 * k]>>]

\* len(seed_num_read) % 2 != 0 and is_range
OddForRanges(numbers, ranges_asked) == Len(numbers) % 2 # 0 /\ ranges_asked

\* The seed_mapped of one seed after the maps from index i on.
RECURSIVE SeedMappedFrom(_, _, _)
SeedMappedFrom(maps, i, seed_mapped) ==
    IF i > Len(maps) THEN seed_mapped
    ELSE SeedMappedFrom(maps, i + 1, apply_map_number(maps[i], seed_mapped))

\* The loop of get_min_seed_mapping_number from seed k on; "inf" is kept
\* as the absence of a minimum, <<>>, a number n as <<n>>.
RECURSIVE MinMappingFrom(_, _, _, _)
MinMappingFrom(numbers, maps, k, min_mapping) ==
    IF k > Len(numbers) THEN min_mapping
    ELSE LET seed_mapped == SeedMappedFrom(maps, 1, numbers[k])
         IN  MinMappingFrom(numbers, maps, k + 1,
                IF min_mapping = <<>> \/ min_mapping[1] > seed_mapped
                THEN <<seed_mapped>>
                ELSE min_mapping)

\* The loop of get_min_seed_mapping_ranges.
RECURSIVE RangesMappedFrom(_, _, _)
RangesMappedFrom(maps, i, ranges) ==
    IF i > Len(maps) THEN ranges
    ELSE RangesMappedFrom(maps, i + 1, apply_map_range(maps[i], ranges))

Init05s ==
    /\ seed_num_read \in UNION {[1..k -> 0..MaxSeedLen] : k \in SeedLineLens}
    /\ is_range_arg \in BOOLEAN
    /\ seed_maps \in UNION {MapLists(shape) : shape \in SeedMapShapes}
    /\ seed_numbers = <<>>
    /\ is_range = is_range_arg
    /\ warned = FALSE
    /\ lowest = <<>>
    /\ pc05s = "seeds"
    /\ IdleBut("05s")

\* seed_numbers, is_range = get_seed_numbers(data[0], is_range)
GetSeedNumbers ==
    /\ pc05s = "seeds"
    /\ warned' = OddForRanges(seed_num_read, is_range)
    /\ is_range' = (is_range /\ ~OddForRanges(seed_num_read, is_range))
    /\ seed_numbers' = IF is_range /\ ~OddForRanges(seed_num_read, is_range)
                       THEN PairUp(seed_num_read)
                       ELSE seed_num_read
    /\ pc05s' = "maps"
    /\ UNCHANGED <<seed_num_read, is_range_arg, seed_maps, lowest>>
    /\ UnchangedBut("05s")

\* return get_min_seed_mapping(seed_numbers, map_strings, is_range); the
\* min() of no ranges raises ValueError, the minimum of no numbers is inf.
GetMinSeedMapping ==
    /\ pc05s = "maps"
    /\ IF is_range
       THEN LET ranges == RangesMappedFrom(seed_maps, 1, seed_numbers)
            IN  IF ranges = <<>>
                THEN lowest' = lowest /\ pc05s' = "ValueError"
                ELSE lowest' = <<MinStart(ranges)>> /\ pc05s' = "done"
       ELSE /\ lowest' = MinMappingFrom(seed_numbers, seed_maps, 1, <<>>)
            /\ pc05s' = "done"
    /\ UNCHANGED <<seed_num_read, is_range_arg, seed_maps, seed_numbers, is_range, warned>>
    /\ UnchangedBut("05s")

Next05s == GetSeedNumbers \/ GetMinSeedMapping

Spec05s == Init05s /\ [][Next05s]_vars

\* The lowest number any of the numbers read is mapped to.
LowestOfNumbers ==
    LET images == {SeedMappedFrom(seed_maps, 1, seed_num_read[k]) : k \in 1..Len(seed_num_read)}
    IN  CHOOSE n \in images : \A o \in images : n <= o

\* C17: an odd count of numbers with is_range True gives a warning, the
\* numbers as read and is_range False, and the location is the minimum in
\* single-number mode; an even count gives the consecutive pairs and True.
C17_OddCountFallsBackToNumbers ==
    pc05s # "seeds" /\ is_range_arg =>
        IF Len(seed_num_read) % 2 = 1
        THEN /\ warned
             /\ seed_numbers = seed_num_read
             /\ ~is_range
             /\ pc05s # "ValueError"
             /\ pc05s = "done" => lowest = <<LowestOfNumbers>>
        ELSE /\ ~warned
             /\ is_range
             /\ Len(seed_numbers) * 2 = Len(seed_num_read)
             /\ \A k \in 1..Len(seed_numbers) :
                    seed_numbers[k] = <<seed_num_read[2 * k - 1], seed_num_read[2 * k]>>

\* Three numbers read for ranges: the lowest location comes from the second
\* number alone, which pairs would have read as a length.
C17_Witness ==
    /\ pc05s = "done"
    /\ is_range_arg
    /\ warned
    /\ Len(seed_num_read) = 3
    /\ seed_maps # <<>>
    /\ lowest = <<SeedMappedFrom(seed_maps, 1, seed_num_read[2])>>
    /\ lowest[1] < SeedMappedFrom(seed_maps, 1, seed_num_read[1])
    /\ lowest[1] < SeedMappedFrom(seed_maps, 1, seed_num_read[3])

----------------------------------------------------------------------------
(* Day 19: src/19/main.py, what get_all_accept_paths leaves in its argument *)

\* C18: when get_all_accept_paths returns, the workflows dictionary it was
\* given still maps every workflow to its original list of rule strings.
C18_WorkflowsUnchanged ==
    pc19b = "done" => wf_heap = user_workflows

----------------------------------------------------------------------------
(* Day 9: src/09/main.py, get_next_element backward and forward *)

\* The longest sequence and the largest absolute value of its numbers.
MaxSeqLen == 4

MaxAbs == 2

Sequences09 == UNION {[1..n -> (-MaxAbs)..MaxAbs] : n \in 0..MaxSeqLen}

Abs(n) == IF n < 0 THEN -n ELSE n

\* sum(abs(num) for num in seq)
RECURSIVE SumAbsFrom(_, _)
SumAbsFrom(s, k) == IF k > Len(s) THEN 0 ELSE Abs(s[k]) + SumAbsFrom(s, k + 1)

\* [s2 - s1 for s2, s1 in zip(seq[1:], seq[:-1])]
diff_step(s) == [k \in 1..(Len(s) - 1) |-> s[k + 1] - s[k]]

\* A plausible slip: the generator never changes sign.
gen_ones_plain(alternating, k) == 1

\* The k-th value gen_ones(alternating) yields.
gen_ones(alternating, k) == IF alternating /\ k % 2 = 0 THEN -1 ELSE 1

\* sum(alt * num for alt, num in zip(gen_ones(backward), diff_seq))
RECURSIVE SignedSumFrom(_, _, _)
SignedSumFrom(diff_seq, alternating, k) ==
    IF k > Len(diff_seq) THEN 0
    ELSE gen_ones(alternating, k) * diff_seq[k] + SignedSumFrom(diff_seq, alternating, k + 1)

Reversed(s) == [k \in 1..Len(s) |-> s[Len(s) + 1 - k]]

Init09 ==
    /\ seq_arg \in Sequences09
    /\ backward = TRUE
    /\ seq = seq_arg
    /\ seq_last = <<>>
    /\ outcomes = <<>>
    /\ IdleBut("09")

\* What follows the end of a call: the backward call on the sequence is
\* followed by the forward call on the reversed sequence.
NextCall(outcome) ==
    /\ outcomes' = Append(outcomes, outcome)
    /\ backward' = FALSE
    /\ seq' = IF backward THEN Reversed(seq_arg) ELSE seq
    /\ seq_last' = IF backward THEN <<>> ELSE seq_last
    /\ UNCHANGED seq_arg

\* One iteration of the while loop of get_diffs.
DiffsIter ==
    /\ Len(outcomes) < 2
    /\ SumAbsFrom(seq, 1) # 0
    /\ Len(seq) # 1
    /\ seq_last' = Append(seq_last, IF backward THEN seq[1] ELSE seq[Len(seq)])
    /\ seq' = diff_step(seq)
    /\ UNCHANGED <<seq_arg, backward, outcomes>>
    /\ UnchangedBut("09")

\* diff_step raises ValueError on a sequence of one number.
DiffsRaise ==
    /\ Len(outcomes) < 2
    /\ SumAbsFrom(seq, 1) # 0
    /\ Len(seq) = 1
    /\ NextCall([raised |-> TRUE, value |-> 0])
    /\ UnchangedBut("09")

\* The loop ends on a zero sequence and get_next_element returns its sum.
NextElementReturn ==
    /\ Len(outcomes) < 2
    /\ SumAbsFrom(seq, 1) = 0
    /\ NextCall([raised |-> FALSE, value |-> SignedSumFrom(seq_last, backward, 1)])
    /\ UnchangedBut("09")

Next09 == DiffsIter \/ DiffsRaise \/ NextElementReturn

Spec09 == Init09 /\ [][Next09]_vars

\* C19: get_next_element(seq, True) and get_next_element(reversed seq,
\* False) raise ValueError together, and otherwise return the same number.
C19_BackwardIsForwardOfReversed ==
    Len(outcomes) = 2 => outcomes[1] = outcomes[2]

\* Both calls returned a number other than 0 after three difference steps
\* on a sequence that is not its own reverse and whose first differences
\* do not end in 0.
C19_Witness ==
    /\ Len(outcomes) = 2
    /\ ~outcomes[1].raised
    /\ outcomes[1].value # 0
    /\ Len(seq_last) >= 3
    /\ seq_arg # Reversed(seq_arg)
    /\ seq_last[2] # 0

====
